---- MODULE Spec2Model ----
(***************************************************************************)
(* A model of codes/utils.py: the Quezon City COVID-19 mapping pipeline.   *)
(*                                                                         *)
(*   download_data  fetches one PDF per date of a range                    *)
(*   extract_table  turns the tables of one PDF into one record set        *)
(*   preprocess     normalises it and left-joins it onto the boundaries    *)
(*   create_map     renders the joined record set, with five annotations   *)
(*   batch_process  runs extract_table, preprocess, create_map per day     *)
(*                                                                         *)
(* The three data functions are operators returning a result record        *)
(* [raised, value]: raised is "none" or the class of the exception the     *)
(* Python code lets escape.  Each function has a specification whose Init  *)
(* draws its arguments from a bounded set and whose action applies it.     *)
(***************************************************************************)
EXTENDS Integers, Sequences, FiniteSets, TLC

VARIABLES
    \* extract_table
    ex_pc, tables, covid_data_out,
    \* preprocess
    pre_pc, covid_data, map_df, df_out,
    \* create_map
    cm_pc, df, filename, total_counts_file, save_fig, output_dir, figure,
    \* what the installed geopandas and matplotlib do with a plot of no rows
    plot_empty,
    \* batch_process
    bp_pc, dt, range_ix, day, found, outputs, escaped,
    \* download_data
    dl_pc, start_dt, end_dt, start_date, end_date, requested, files, printed

exVars == <<ex_pc, tables, covid_data_out>>
preVars == <<pre_pc, covid_data, map_df, df_out>>
cmVars == <<cm_pc, df, filename, total_counts_file, save_fig, output_dir, figure,
            plot_empty>>
bpVars == <<bp_pc, dt, range_ix, day, found, outputs, escaped>>
dlVars == <<dl_pc, start_dt, end_dt, start_date, end_date, requested, files, printed>>
vars == <<exVars, preVars, cmVars, bpVars, dlVars>>

(***************************************************************************)
(* Bounds of the model.                                                    *)
(***************************************************************************)
MaxTables == 2
MaxBody == 2
MaxRows == 2
MaxShapes == 2
MaxJoined == 2
MaxDays == 3
LongRange == 11
MaxSpan == 4

(***************************************************************************)
(* Generic helpers.                                                        *)
(***************************************************************************)
Range(s) == {s[i] : i \in DOMAIN s}

SeqsUpTo(S, n) == UNION {[1..k -> S] : k \in 0..n}

RECURSIVE Flatten(_)
Flatten(ss) == IF ss = <<>> THEN <<>> ELSE Head(ss) \o Flatten(Tail(ss))

RECURSIVE SumSeq(_)
SumSeq(s) == IF s = <<>> THEN 0 ELSE Head(s) + SumSeq(Tail(s))

IndexOf(s, x) == CHOOSE i \in DOMAIN s : s[i] = x

(***************************************************************************)
(* Cells of a data frame.  A string cell is either a run of decimal digits *)
(* (kept as its digit sequence, so that parsing it is a computation) or    *)
(* any other text; NaN is pandas' missing value; Num is a parsed number.   *)
(* No text of the model is one that pandas.to_numeric accepts.             *)
(***************************************************************************)
NaN == [kind |-> "nan", text |-> "", digits |-> <<>>, num |-> 0]
Text(s) == [kind |-> "text", text |-> s, digits |-> <<>>, num |-> 0]
DigitStr(ds) == [kind |-> "digits", text |-> "", digits |-> ds, num |-> 0]
Num(n) == [kind |-> "num", text |-> "", digits |-> <<>>, num |-> n]

Ok(v) == [raised |-> "none", value |-> v]
Raise(e) == [raised |-> e, value |-> <<>>]

(***************************************************************************)
(* Data frames: a set of column labels and a sequence of rows, each row a  *)
(* function from the labels to cells.  Column order is not modelled.       *)
(***************************************************************************)
DataFrame(cols, rows) == [columns |-> cols, rows |-> rows]

\* df.columns = df.iloc[0, :].values : the first row's cells become the labels
WithHeader(table) ==
    LET header == table[1]
    IN  DataFrame(Range(header),
                  [i \in 1..Len(table) |->
                      [c \in Range(header) |-> table[i][IndexOf(header, c)]]])

\* The mutant of ILocInner: only the header row is cut, the footer is kept.
ILocFromOne(rows) == SubSeq(rows, 2, Len(rows))

\* df.iloc[1:-1, :] : all rows but the first and the last
ILocInner(rows) == SubSeq(rows, 2, Len(rows) - 1)

\* one row re-indexed to a wider label set; cells of new labels are missing
Reindex(row, cols) == [c \in cols |-> IF c \in DOMAIN row THEN row[c] ELSE NaN]

\* pd.concat(results): outer join of the labels, rows in list order
Concat(frames) ==
    LET cols == UNION {frames[i].columns : i \in DOMAIN frames}
    IN  DataFrame(cols,
                  Flatten([i \in DOMAIN frames |->
                      [j \in DOMAIN frames[i].rows |-> Reindex(frames[i].rows[j], cols)]]))

(***************************************************************************)
(* extract_table(file).  A PDF on disk is [exists, readable, tables]:      *)
(* tables is what tabula reads from it, a sequence of tables, each a       *)
(* sequence of rows, each row a sequence of cells.                         *)
(***************************************************************************)
Pdf(tabs) == [exists |-> TRUE, readable |-> TRUE, tables |-> tabs]
NoPdf == [exists |-> FALSE, readable |-> FALSE, tables |-> <<>>]
CorruptPdf == [exists |-> TRUE, readable |-> FALSE, tables |-> <<>>]

\* tabula.read_pdf(file, pages="all", multiple_tables=True)
ReadPdf(pdf) ==
    IF ~pdf.exists THEN Raise("FileNotFoundError")
    ELSE IF ~pdf.readable THEN Raise("CalledProcessError")
    ELSE Ok(pdf.tables)

ExtractTable(pdf) ==
    LET read == ReadPdf(pdf)
        tabs == read.value
    IN  IF read.raised # "none" THEN read
        ELSE IF \E i \in DOMAIN tabs : tabs[i] = <<>>
        THEN Raise("IndexError")          \* df.iloc[0, :] of a table with no row
        ELSE IF tabs = <<>>
        THEN Raise("ValueError")          \* pd.concat([]) : no objects to concatenate
        ELSE Ok(Concat([i \in DOMAIN tabs |->
                    LET frame == WithHeader(tabs[i])
                    IN  DataFrame(frame.columns, ILocInner(frame.rows))]))

(***************************************************************************)
(* preprocess(covid_data, shapefiles_location).                            *)
(* The characters U+2010 (a typographic hyphen) and U+00F1 (n with tilde)  *)
(* of the source's strings are written {U+2010} and {U+00F1}.              *)
(***************************************************************************)
rep ==
    [k \in {"Bagong Pag{U+2010}Asa", "Don_a Imelda", "Don_a Josefa", "Duyan{U+2010}Duyan",
            "Pag{U+2010}Ibig Sa Nayon", "Pasong Putik", "Phil{U+2010}Am",
            "Quirino 2{U+2010}A", "Quirino 2{U+2010}B", "Quirino 2{U+2010}C",
            "Quirino 3{U+2010}A", "San Isidro Galas", "San Martin De Porres",
            "Santo Nin_o", "Siena"} |->
        CASE k = "Bagong Pag{U+2010}Asa" -> "Bagong Pag-Asa"
          [] k = "Don_a Imelda" -> "Do{U+00F1}a Imelda"
          [] k = "Don_a Josefa" -> "Do{U+00F1}a Josefa"
          [] k = "Duyan{U+2010}Duyan" -> "Duyan-Duyan"
          [] k = "Pag{U+2010}Ibig Sa Nayon" -> "Pag-Ibig Sa Nayon"
          [] k = "Pasong Putik" -> "Pasong Putik Proper"
          [] k = "Phil{U+2010}Am" -> "Phil-Am"
          [] k = "Quirino 2{U+2010}A" -> "Quirino 2-A"
          [] k = "Quirino 2{U+2010}B" -> "Quirino 2-B"
          [] k = "Quirino 2{U+2010}C" -> "Quirino 2-C"
          [] k = "Quirino 3{U+2010}A" -> "Quirino 3-A"
          [] k = "San Isidro Galas" -> "San Isidro"
          [] k = "San Martin De Porres" -> "San Martin de Porres"
          [] k = "Santo Nin_o" -> "Santo Ni{U+00F1}o"
          [] k = "Siena" -> "Sienna"]

BoundaryAlias == [k \in {"Constitution Hills"} |-> "Commonwealth"]

Features == <<"Active", "Died", "Recovered", "Total">>

\* one cell under a replacement dictionary: only a string equal to a key changes
ReplaceCell(mapping, cell) ==
    IF cell.kind = "text" /\ cell.text \in DOMAIN mapping
    THEN Text(mapping[cell.text])
    ELSE cell

\* frame.replace({col: mapping}); a frame without the column is left as it is
Replace(frame, col, mapping) ==
    DataFrame(frame.columns,
              [i \in DOMAIN frame.rows |->
                  [c \in frame.columns |->
                      IF c = Text(col) THEN ReplaceCell(mapping, frame.rows[i][c])
                      ELSE frame.rows[i][c]]])

\* frame[col] = values, a new or an overwritten column
Assign(frame, col, values) ==
    DataFrame(frame.columns \cup {Text(col)},
              [i \in DOMAIN frame.rows |->
                  [c \in frame.columns \cup {Text(col)} |->
                      IF c = Text(col) THEN values[i] ELSE frame.rows[i][c]]])

RECURSIVE ParseDigits(_)
ParseDigits(ds) ==
    IF ds = <<>> THEN 0
    ELSE 10 * ParseDigits(SubSeq(ds, 1, Len(ds) - 1)) + ds[Len(ds)]

\* whether pd.to_numeric can parse the cell (errors='raise' is the default)
Parseable(cell) == cell.kind # "text"

\* pd.to_numeric on one parseable cell
ToNumericCell(cell) ==
    CASE cell.kind = "digits" -> Num(ParseDigits(cell.digits))
      [] OTHER -> cell

\* series.fillna(0) on one cell
FillNa0(cell) == IF cell.kind = "nan" THEN Num(0) ELSE cell

\* frame[col] = pd.to_numeric(frame[col]), then frame[col] = frame[col].fillna(0)
CoerceColumn(frame, col) ==
    DataFrame(frame.columns,
              [i \in DOMAIN frame.rows |->
                  [c \in frame.columns |->
                      IF c = Text(col) THEN FillNa0(ToNumericCell(frame.rows[i][c]))
                      ELSE frame.rows[i][c]]])

\* for feature in [...]: to_numeric, then fillna(0), on covid_data[feature]
RECURSIVE CoerceFeatures(_, _)
CoerceFeatures(frame, feats) ==
    IF feats = <<>> THEN Ok(frame)
    ELSE LET f == Head(feats)
         IN  IF Text(f) \notin frame.columns THEN Raise("KeyError")
             ELSE IF \E i \in DOMAIN frame.rows : ~Parseable(frame.rows[i][Text(f)])
             THEN Raise("ValueError")
             ELSE CoerceFeatures(CoerceColumn(frame, f), Tail(feats))

\* boundary geometry: a polygon, and a point inside a polygon
Polygon(id) == [kind |-> "polygon", text |-> "", digits |-> <<>>, num |-> id]
PointIn(id) == [kind |-> "point", text |-> "", digits |-> <<>>, num |-> id]
RepresentativePoint(cell) == PointIn(cell.num)

\* (map_df['REGION'] == 'Metropolitan Manila') & (map_df['NAME_2'] == 'Quezon City')
InQuezonCity(row) ==
    /\ row[Text("REGION")] = Text("Metropolitan Manila")
    /\ row[Text("NAME_2")] = Text("Quezon City")

\* map_df[mask], then the coords and Barangay columns and the boundary alias
BoundaryFrame(shapes) ==
    LET qc0 == DataFrame(shapes.columns, SelectSeq(shapes.rows, InQuezonCity))
        qc1 == Assign(qc0, "coords",
                      [i \in DOMAIN qc0.rows |->
                          RepresentativePoint(qc0.rows[i][Text("geometry")])])
        qc2 == Assign(qc1, "Barangay",
                      [i \in DOMAIN qc1.rows |-> qc1.rows[i][Text("NAME_3")]])
    IN  Replace(qc2, "Barangay", BoundaryAlias)

\* one joined row: the left row extended by the right row's other columns
JoinRow(l, r, cols) == [c \in cols |-> IF c \in DOMAIN l THEN l[c] ELSE r[c]]

\* the right rows whose key equals the left row's key, in the right frame's order
Matches(l, right, key) ==
    LET Same(r) == r[Text(key)] = l[Text(key)]
    IN  SelectSeq(right.rows, Same)

\* A mutant of Merge: how='inner', a left row without a match is dropped.
MergeInner(left, right, key) ==
    LET cols == left.columns \cup right.columns
    IN  DataFrame(cols,
            Flatten([i \in DOMAIN left.rows |->
                LET m == Matches(left.rows[i], right, key)
                IN  [j \in DOMAIN m |-> JoinRow(left.rows[i], m[j], cols)]]))

\* A mutant of Merge: how='outer', the right rows without a match are appended.
MergeOuter(left, right, key) ==
    LET cols == left.columns \cup right.columns
        Unmatched(r) == \A i \in DOMAIN left.rows : left.rows[i][Text(key)] # r[Text(key)]
        rest == SelectSeq(right.rows, Unmatched)
    IN  DataFrame(cols,
            Flatten([i \in DOMAIN left.rows |->
                LET m == Matches(left.rows[i], right, key)
                IN  IF m = <<>> THEN <<Reindex(left.rows[i], cols)>>
                    ELSE [j \in DOMAIN m |-> JoinRow(left.rows[i], m[j], cols)]])
            \o [j \in DOMAIN rest |-> Reindex(rest[j], cols)])

\* A mutant of Merge: the counts of a left row without a match are zero.
MergeZeroFill(left, right, key) ==
    LET cols == left.columns \cup right.columns
        zeros == [c \in cols |-> Num(0)]
    IN  DataFrame(cols,
            Flatten([i \in DOMAIN left.rows |->
                LET m == Matches(left.rows[i], right, key)
                IN  IF m = <<>> THEN <<JoinRow(left.rows[i], zeros, cols)>>
                    ELSE [j \in DOMAIN m |-> JoinRow(left.rows[i], m[j], cols)]]))

\* left.merge(right, how='left', on=key), both frames holding the key column
Merge(left, right, key) ==
    LET cols == left.columns \cup right.columns
    IN  DataFrame(cols,
            Flatten([i \in DOMAIN left.rows |->
                LET m == Matches(left.rows[i], right, key)
                IN  IF m = <<>> THEN <<Reindex(left.rows[i], cols)>>
                    ELSE [j \in DOMAIN m |-> JoinRow(left.rows[i], m[j], cols)]]))

\* The mutant of Preprocess: a boundary filter without rows is an error.
PreprocessNonEmpty(covid, shapes) ==
    LET coerced == CoerceFeatures(Replace(covid, "Barangay", rep), Features)
        qc_df == BoundaryFrame(shapes)
    IN  IF coerced.raised # "none" THEN coerced
        ELSE IF qc_df.rows = <<>> THEN Raise("IndexError")
        ELSE IF Text("Barangay") \notin coerced.value.columns THEN Raise("KeyError")
        ELSE Ok(Merge(qc_df, coerced.value, "Barangay"))

Preprocess(covid, shapes) ==
    LET coerced == CoerceFeatures(Replace(covid, "Barangay", rep), Features)
        qc_df == BoundaryFrame(shapes)
    IN  IF coerced.raised # "none" THEN coerced
        ELSE IF Text("Barangay") \notin coerced.value.columns THEN Raise("KeyError")
        ELSE Ok(Merge(qc_df, coerced.value, "Barangay"))

(***************************************************************************)
(* Dates and file names.  A PDF's path f'{dir}/{month}-{dd}-{yyyy}-Cases.  *)
(* pdf' is kept as its parts; dd and yyyy are digit strings.               *)
(***************************************************************************)
MonthName ==
    <<"January", "February", "March", "April", "May", "June", "July", "August",
      "September", "October", "November", "December">>

\* the decimal digits of n, as str(n) or an f-string prints them
RECURSIVE Digits(_)
Digits(n) == IF n < 10 THEN <<n>> ELSE Digits(n \div 10) \o <<n % 10>>

\* n printed with at least w digits, zero-padded: strftime's %d, %m and %Y
RECURSIVE Pad(_, _)
Pad(n, w) == IF Len(Digits(n)) >= w THEN Digits(n) ELSE <<0>> \o Pad(n, w - 1) 

CasesPdf(dir, month, dd, yyyy) == [dir |-> dir, month |-> month, dd |-> dd, yyyy |-> yyyy]

\* date.strftime('%B %d %Y') and '%B-%d-%Y': the same three parts
StrfBdY(date) == <<MonthName[date[2]], Pad(date[3], 2), Pad(date[1], 4)>>

\* filename.split('/')[-1].replace('-Cases.pdf', '').replace('-', ' ').split(' ')
DateParts(file) == <<file.month, file.dd, file.yyyy>>

(***************************************************************************)
(* create_map(df, filename, total_counts_file, vmax, show_plot, save_fig,  *)
(* output_dir).  A file argument is [exists, rows]; a directory argument   *)
(* is [exists, name].  The figure is kept as the numbers it annotates; the *)
(* colours, coordinates and thousands separators are not modelled.         *)
(***************************************************************************)
\* df[df.Barangay == name][col], as the sequence of its cells
Lookup(frame, name, col) ==
    LET Named(r) == r[Text("Barangay")] = Text(name)
        hit == SelectSeq(frame.rows, Named)
    IN  [i \in DOMAIN hit |-> hit[i][Text(col)]]

\* series.sum(): missing cells are skipped, an empty selection sums to 0
RECURSIVE SeriesSum(_)
SeriesSum(cells) ==
    IF cells = <<>> THEN 0
    ELSE (IF Head(cells).kind = "num" THEN Head(cells).num ELSE 0) + SeriesSum(Tail(cells))

\* int(series.values[0])
FirstInt(cells) ==
    IF cells = <<>> THEN Raise("IndexError")
    ELSE IF cells[1].kind # "num" THEN Raise("ValueError")   \* int(float('nan'))
    ELSE Ok(cells[1].num)

\* the first failure among results, or the values of all of them
AllOk(results) ==
    IF \E i \in DOMAIN results : results[i].raised # "none"
    THEN results[CHOOSE i \in DOMAIN results :
                    /\ results[i].raised # "none"
                    /\ \A k \in 1..(i - 1) : results[k].raised = "none"]
    ELSE Ok([i \in DOMAIN results |-> results[i].value])

\* the four numbers annotated for a subdivision by .sum()
SumAnnotation(frame, name) ==
    Ok([i \in DOMAIN Features |-> SeriesSum(Lookup(frame, name, Features[i]))])

\* The mutant of FirstAnnotation: Commonwealth annotated by .sum() like the rest.
FirstAnnotationAsSum(frame, name) == SumAnnotation(frame, name)

\* the four numbers annotated for a subdivision by .values[0]
FirstAnnotation(frame, name) ==
    AllOk([i \in DOMAIN Features |-> FirstInt(Lookup(frame, name, Features[i]))])

TotalsColumns == <<"Active", "Deaths", "Recoveries", "Total">>

\* the headline numbers: the first row of the totals whose date is the file's
Headline(totals, file) ==
    LET OfDay(r) == StrfBdY(r.Date) = DateParts(file)
        hit == SelectSeq(totals, OfDay)
    IN  AllOk([i \in DOMAIN TotalsColumns |->
                 FirstInt([k \in DOMAIN hit |-> hit[k][TotalsColumns[i]]])])

PngName(dir, file) == [dir |-> dir.name, month |-> file.month, dd |-> file.dd, yyyy |-> file.yyyy]

\* What df.plot does with a frame of no rows is the library's: geopandas
\* derives the aspect of the axes from the frame's bounds, which are NaN for
\* no rows, before its test for an empty frame.  Some releases warn and return,
\* others hand the NaN aspect to matplotlib, which raises ValueError.
PlotEmptyOutcomes == {"none", "ValueError"}

\* df.plot(column='Active', ...): rows without a number are left undrawn
Plot(frame, on_empty) ==
    IF frame.rows = <<>> /\ on_empty # "none" THEN Raise(on_empty)
    ELSE Ok([drawn |-> {k \in DOMAIN frame.rows :
                          frame.rows[k][Text("Active")].kind = "num"}])

\* the statements of create_map in their order: read_csv, df.plot, the
\* annotation of the totals, the five annotated subdivisions, savefig
CreateMap(frame, file, totals_file, save, dir, on_empty) ==
    IF ~totals_file.exists THEN Raise("FileNotFoundError")     \* pd.read_csv
    ELSE IF Plot(frame, on_empty).raised # "none" THEN Plot(frame, on_empty)
    ELSE LET headline == Headline(totals_file.rows, file)
             notes == AllOk(<<SumAnnotation(frame, "Fairview"),
                              FirstAnnotation(frame, "Commonwealth"),
                              SumAnnotation(frame, "Batasan Hills"),
                              SumAnnotation(frame, "Holy Spirit"),
                              SumAnnotation(frame, "Pasong Tamo")>>)
         IN  IF headline.raised # "none" THEN headline
             ELSE IF notes.raised # "none" THEN notes
             ELSE IF save /\ ~dir.exists THEN Raise("FileNotFoundError")   \* plt.savefig
             ELSE Ok([saved |-> IF save THEN {PngName(dir, file)} ELSE {},
                      headline |-> headline.value,
                      annotations |-> notes.value])

(***************************************************************************)
(* batch_process(dt, vmax, data_dir, shapefiles_location,                  *)
(* total_counts_file, output_dir).                                         *)
(***************************************************************************)
\* the path expected for a day of a month: '0{day}' below 10, '{day}' from 10 on
DownloadedFile(data_dir, month, d) ==
    CasesPdf(data_dir, month,
             IF d < 10 THEN <<0>> \o Digits(d) ELSE Digits(d),
             <<2, 0, 2, 1>>)

\* the body of the try: extract_table, preprocess, create_map with save_fig=True
ProcessFile(pdf, file, shapes, totals_file, dir, on_empty) ==
    LET extracted == ExtractTable(pdf)
        joined == Preprocess(extracted.value, shapes)
    IN  IF extracted.raised # "none" THEN extracted
        ELSE IF joined.raised # "none" THEN joined
        ELSE CreateMap(joined.value, file, totals_file, TRUE, dir, on_empty)

\* A mutant of Caught: a bare except, every exception is swallowed.
CaughtAll(e) == TRUE

\* A mutant of Caught: no handler, nothing is caught.
CaughtNone(e) == FALSE

\* except FileNotFoundError: continue
Caught(e) == e = "FileNotFoundError"

(***************************************************************************)
(* download_data(start_dt, end_dt, directory).  Dates are <<year, month,   *)
(* day>> as datetime.date keeps them.                                      *)
(***************************************************************************)
DaysInMonth(y, m) ==
    IF m = 2 THEN (IF (y % 4 = 0 /\ y % 100 # 0) \/ y % 400 = 0 THEN 29 ELSE 28)
    ELSE IF m \in {4, 6, 9, 11} THEN 30 ELSE 31

\* A mutant of PlusOneDay: February always has 28 days.
PlusOneDayNoLeap(date) ==
    LET last == IF date[2] = 2 THEN 28 ELSE DaysInMonth(date[1], date[2])
    IN  IF date[3] < last THEN <<date[1], date[2], date[3] + 1>>
        ELSE IF date[2] < 12 THEN <<date[1], date[2] + 1, 1>>
        ELSE <<date[1] + 1, 1, 1>>

\* start_date + datetime.timedelta(days=1)
PlusOneDay(date) ==
    IF date[3] < DaysInMonth(date[1], date[2]) THEN <<date[1], date[2], date[3] + 1>>
    ELSE IF date[2] < 12 THEN <<date[1], date[2] + 1, 1>>
    ELSE <<date[1] + 1, 1, 1>>

\* start_date <= end_date
DateLE(a, b) ==
    \/ a[1] < b[1]
    \/ a[1] = b[1] /\ a[2] < b[2]
    \/ a[1] = b[1] /\ a[2] = b[2] /\ a[3] <= b[3]

\* the URL requested for a date: the year of the path is always 2021
Url(date) == [year |-> <<2, 0, 2, 1>>, month |-> Pad(date[2], 2), file |-> StrfBdY(date)]

\* f'{directory}/{filename}' with filename = strftime("%B-%d-%Y") + '-Cases.pdf'
SavedPdf(directory, date) ==
    CasesPdf(directory, StrfBdY(date)[1], StrfBdY(date)[2], StrfBdY(date)[3])

\* str(response) == '<Response [200]>'
IsResponse200(code) == code = 200

(***************************************************************************)
(* The inputs the specifications draw from.                                *)
(***************************************************************************)
Labels(names) == [i \in DOMAIN names |-> Text(names[i])]

HeaderRow == Labels(<<"Barangay", "Active", "Died", "Recovered", "Total">>)
AltHeaderRow == Labels(<<"Barangay", "Active Cases", "Died", "Recovered", "Total">>)
FooterRow == <<Text("TOTAL"), DigitStr(<<9, 9>>), DigitStr(<<7>>), DigitStr(<<8, 0>>), DigitStr(<<1, 8, 6>>)>>

\* a report line: the subdivision's name and its four counts as printed
Line(name, counts) == <<Text(name)>> \o counts

Plain == <<DigitStr(<<1, 2>>), DigitStr(<<3>>), DigitStr(<<4, 0>>), DigitStr(<<5, 5>>)>>

\* the plain counts with one of them replaced
PlainBut(f, cell) == [i \in 1..4 |-> IF i = f THEN cell ELSE Plain[i]]

BodyLines == {Line("Commonwealth", Plain), Line("Siena", PlainBut(1, NaN))}

\* the tables tabula may return for one page: header, lines, footer; or less
PageTables ==
    {<<h>> \o body \o <<FooterRow>> :
        h \in {HeaderRow, AltHeaderRow}, body \in SeqsUpTo(BodyLines, MaxBody)}
    \cup {<<>>, <<HeaderRow>>}

PdfInputs == SeqsUpTo(PageTables, MaxTables)

\* a record of an extracted frame
CaseRow(line) == [c \in Range(HeaderRow) |-> line[IndexOf(HeaderRow, c)]]

CaseLines ==
    {Line(n, Plain) : n \in {"Siena", "Sienna", "Commonwealth", "Nowhere"}}
    \cup {Line("Commonwealth", PlainBut(f, cell)) :
            f \in 1..4, cell \in {NaN, Text("n/a")}}

CaseFrames ==
    {DataFrame(Range(HeaderRow), [i \in DOMAIN ls |-> CaseRow(ls[i])]) :
        ls \in SeqsUpTo(CaseLines, MaxRows)}
    \cup {WithHeader(<<AltHeaderRow, Line("Commonwealth", Plain)>>),
          WithHeader(<<Labels(<<"Name", "Active", "Died", "Recovered", "Total">>),
                       Line("Commonwealth", Plain)>>)}

ShapeLabels == Labels(<<"REGION", "NAME_2", "NAME_3", "geometry">>)

Shape(region, city, name, id) ==
    [c \in Range(ShapeLabels) |->
        <<Text(region), Text(city), Text(name), Polygon(id)>>[IndexOf(ShapeLabels, c)]]

ShapeRows ==
    {Shape("Metropolitan Manila", "Quezon City", "Sienna", 1),
     Shape("Metropolitan Manila", "Quezon City", "Constitution Hills", 2),
     Shape("Metropolitan Manila", "Manila", "Nowhere", 3),
     Shape("Cebu", "Quezon City", "Nowhere", 4)}

ShapeFrames == {DataFrame(Range(ShapeLabels), rows) : rows \in SeqsUpTo(ShapeRows, MaxShapes)}

Pending == [raised |-> "pending", value |-> <<>>]

ExIdle == ex_pc = "idle" /\ tables = <<>> /\ covid_data_out = Pending
PreIdle == pre_pc = "idle" /\ covid_data = <<>> /\ map_df = <<>> /\ df_out = Pending
CmIdle ==
    /\ cm_pc = "idle" /\ df = <<>> /\ filename = "" /\ total_counts_file = <<>>
    /\ save_fig = FALSE /\ output_dir = "" /\ figure = Pending
    /\ plot_empty = "none"
BpIdle ==
    /\ bp_pc = "idle" /\ dt = <<>> /\ range_ix = 0 /\ day = 0 /\ found = <<>>
    /\ outputs = <<>> /\ escaped = "none"
DlIdle ==
    /\ dl_pc = "idle" /\ start_dt = <<>> /\ end_dt = <<>> /\ start_date = <<>>
    /\ end_date = <<>> /\ requested = <<>> /\ files = {} /\ printed = <<>>

(***************************************************************************)
(* Specification of extract_table.                                         *)
(***************************************************************************)
InitExtract ==
    /\ ex_pc = "call" /\ tables \in PdfInputs /\ covid_data_out = Pending
    /\ PreIdle /\ CmIdle /\ BpIdle /\ DlIdle

CallExtractTable ==
    /\ ex_pc = "call"
    /\ covid_data_out' = ExtractTable(Pdf(tables))
    /\ ex_pc' = "return"
    /\ UNCHANGED <<tables, preVars, cmVars, bpVars, dlVars>>

SpecExtract == InitExtract /\ [][CallExtractTable]_vars

(***************************************************************************)
(* Specification of preprocess.                                            *)
(***************************************************************************)
InitPreprocess ==
    /\ pre_pc = "call" /\ covid_data \in CaseFrames /\ map_df \in ShapeFrames
    /\ df_out = Pending
    /\ ExIdle /\ CmIdle /\ BpIdle /\ DlIdle

CallPreprocess ==
    /\ pre_pc = "call"
    /\ df_out' = Preprocess(covid_data, map_df)
    /\ pre_pc' = "return"
    /\ UNCHANGED <<covid_data, map_df, exVars, cmVars, bpVars, dlVars>>

SpecPreprocess == InitPreprocess /\ [][CallPreprocess]_vars

(***************************************************************************)
(* Claims about extract_table.                                             *)
(***************************************************************************)
\* the number of output rows the tables before table i contribute
RowsBefore(i) == SumSeq([m \in 1..(i - 1) |-> Len(tables[m]) - 2])

HeaderAndFooterEverywhere ==
    tables # <<>> /\ \A i \in DOMAIN tables : Len(tables[i]) >= 2

\* C5: for a PDF of N >= 1 tables that each hold a header row and a footer row,
\* extract_table returns (sum of the tables' row counts) - 2N rows: every row of
\* a table but its first and last, read under that table's header, in the order
\* of the rows within the table and of the tables in the PDF.
C5_ExtractKeepsInnerRowsInOrder ==
    (ex_pc = "return" /\ HeaderAndFooterEverywhere) =>
        /\ covid_data_out.raised = "none"
        /\ Len(covid_data_out.value.rows)
             = SumSeq([i \in DOMAIN tables |-> Len(tables[i])]) - 2 * Len(tables)
        /\ \A i \in DOMAIN tables : \A j \in 2..(Len(tables[i]) - 1) :
             \A p \in DOMAIN tables[i][1] :
               covid_data_out.value.rows[RowsBefore(i) + j - 1][tables[i][1][p]]
                 = tables[i][j][p]

C5_Witness ==
    /\ ex_pc = "return" /\ Len(tables) = 2
    /\ Len(tables[1]) = 4 /\ Len(tables[2]) = 3 /\ tables[1][2] # tables[1][3]
    /\ Len(covid_data_out.value.rows) = 3

(***************************************************************************)
(* Claims about preprocess.                                                *)
(***************************************************************************)
Returned == pre_pc = "return" /\ df_out.raised = "none"

\* the boundary records that pass the region/city filter
Known == {i \in DOMAIN map_df.rows :
            /\ map_df.rows[i][Text("REGION")].text = "Metropolitan Manila"
            /\ map_df.rows[i][Text("NAME_2")].text = "Quezon City"}

\* the name a boundary record is joined under
KnownName(i) ==
    LET n == map_df.rows[i][Text("NAME_3")].text
    IN  IF n = "Constitution Hills" THEN "Commonwealth" ELSE n

\* the name a raw record is joined under
ReportedName(j) ==
    LET n == covid_data.rows[j][Text("Barangay")].text
    IN  IF n \in DOMAIN rep THEN rep[n] ELSE n

\* the raw records reported under the name of boundary record i
Reports(i) == {j \in DOMAIN covid_data.rows : ReportedName(j) = KnownName(i)}

SumOver(S, F(_)) ==
    LET RECURSIVE Go(_)
        Go(T) == IF T = {} THEN 0
                 ELSE LET x == CHOOSE y \in T : TRUE IN F(x) + Go(T \ {x})
    IN  Go(S)

JoinedRows == df_out.value.rows

\* C1 as stated: the joined output has exactly one row per boundary record that
\* passed the filter, however many rows the raw record set has.
C1_RowCountIsBoundaryCount == Returned => Len(JoinedRows) = Cardinality(Known)

\* C1 amended: a boundary record contributes one row when no raw record bears
\* its name and one row per raw record that does; so the count is the boundary
\* count exactly when no name of the boundary is reported on several rows, and
\* omitted subdivisions never change it.
C1_RowCountIsLeftJoinCount ==
    Returned =>
        LET Contribution(i) == IF Reports(i) = {} THEN 1 ELSE Cardinality(Reports(i))
        IN  /\ Len(JoinedRows) = SumOver(Known, Contribution)
            /\ (\A i \in Known : Cardinality(Reports(i)) <= 1)
                  <=> Len(JoinedRows) = Cardinality(Known)

C1_Witness ==
    /\ Returned /\ Cardinality(Known) = 2 /\ Len(covid_data.rows) = 2
    /\ \E i \in Known : Reports(i) = {} 
    /\ \E i \in Known : Cardinality(Reports(i)) = 2
    /\ Len(JoinedRows) = 3

HasColumns == Range(HeaderRow) \subseteq covid_data.columns

\* the value the claim gives a count cell
ZeroIfNotNumeric(cell) ==
    IF cell.kind = "digits" THEN Num(ParseDigits(cell.digits)) ELSE Num(0)

\* C2 as stated: a raw record set with the five columns is preprocessed without
\* an error, and in the output every count of a matched raw record is its
\* number, or 0 where the cell was a non-numeric token or missing.
C2_NonNumericCountsBecomeZero ==
    (pre_pc = "return" /\ HasColumns) =>
        /\ df_out.raised = "none"
        /\ \A i \in Known : \A j \in Reports(i) :
             \E k \in DOMAIN JoinedRows :
                /\ JoinedRows[k][Text("Barangay")] = Text(KnownName(i))
                /\ \A f \in Range(Features) :
                     JoinedRows[k][Text(f)] = ZeroIfNotNumeric(covid_data.rows[j][Text(f)])

\* C3 as stated: a known subdivision that no raw record reports has the counts 0.
C3_UnreportedCountsAreZero ==
    Returned =>
        \A k \in DOMAIN JoinedRows :
            (\A j \in DOMAIN covid_data.rows :
                Text(ReportedName(j)) # JoinedRows[k][Text("Barangay")])
            => \A f \in Range(Features) : JoinedRows[k][Text(f)] = Num(0)

\* C3 amended: a known subdivision that no raw record reports has its four
\* counts missing (NaN) in the output; the zero default is applied to the raw
\* records only, before the join.
C3_UnreportedCountsAreMissing ==
    Returned =>
        /\ \A i \in Known : Reports(i) = {} =>
             \E k \in DOMAIN JoinedRows :
                JoinedRows[k][Text("NAME_3")] = map_df.rows[i][Text("NAME_3")]
        /\ \A k \in DOMAIN JoinedRows :
            (\A j \in DOMAIN covid_data.rows :
                Text(ReportedName(j)) # JoinedRows[k][Text("Barangay")])
            => \A f \in Range(Features) : JoinedRows[k][Text(f)] = NaN

C3_Witness ==
    /\ Returned /\ covid_data.rows # <<>>
    /\ \E i \in Known : Reports(i) = {} /\ KnownName(i) = "Commonwealth"
    /\ \E i \in Known : Reports(i) # {}

WellFormedReport ==
    /\ HasColumns
    /\ \A j \in DOMAIN covid_data.rows : \A f \in Range(Features) :
          covid_data.rows[j][Text(f)].kind # "text"

\* C4: every row of the output bears the (alias-corrected) name of a boundary
\* record that passed the filter; a raw record whose normalised name is none of
\* them has no row, and raises nothing.
C4_OnlyBoundaryNamesAreJoined ==
    /\ Returned =>
         /\ \A k \in DOMAIN JoinedRows :
              \E i \in Known : JoinedRows[k][Text("Barangay")] = Text(KnownName(i))
         /\ \A j \in DOMAIN covid_data.rows :
              (\A i \in Known : KnownName(i) # ReportedName(j)) =>
                 \A k \in DOMAIN JoinedRows :
                    JoinedRows[k][Text("Barangay")] # Text(ReportedName(j))
    /\ (pre_pc = "return" /\ WellFormedReport) => df_out.raised = "none"

C4_Witness ==
    /\ Returned /\ Known # {}
    /\ \E j \in DOMAIN covid_data.rows :
          /\ covid_data.rows[j][Text("Barangay")] = Text("Nowhere")
          /\ \E i \in DOMAIN map_df.rows : map_df.rows[i][Text("NAME_3")] = Text("Nowhere")
    /\ \E j \in DOMAIN covid_data.rows : \E i \in Known : j \in Reports(i)

\* C9 as stated: preprocess raises whenever the filter leaves no boundary record.
C9_EmptyFilterRaises ==
    (pre_pc = "return" /\ Known = {}) => df_out.raised # "none"

\* C9 amended: an empty filter result raises nothing; preprocess then returns
\* a joined record set without rows whenever the raw record set is one it can
\* coerce, and what it raises otherwise comes from the raw record set.
C9_EmptyFilterReturnsNoRows ==
    (pre_pc = "return" /\ Known = {}) =>
        /\ WellFormedReport <=> df_out.raised = "none"
        /\ df_out.raised = "none" => JoinedRows = <<>>

C9_Witness ==
    /\ Returned /\ Known = {} /\ map_df.rows # <<>> /\ covid_data.rows # <<>>
    /\ JoinedRows = <<>>

(***************************************************************************)
(* Specification of create_map.                                            *)
(***************************************************************************)
JoinedLabels == Labels(<<"Barangay", "geometry", "Active", "Died", "Recovered", "Total">>)

Joined(name, id, counts) ==
    [c \in Range(JoinedLabels) |-> (<<Text(name), Polygon(id)>> \o counts)[IndexOf(JoinedLabels, c)]]

Counted == <<Num(12), Num(3), Num(40), Num(55)>>
Uncounted == <<NaN, NaN, NaN, NaN>>

Annotated == <<"Fairview", "Commonwealth", "Batasan Hills", "Holy Spirit", "Pasong Tamo">>

JoinedLines ==
    {Joined(Annotated[n], n, Counted) : n \in DOMAIN Annotated}
    \cup {Joined("Commonwealth", 2, Uncounted), Joined("Fairview", 6, Uncounted),
          Joined("Sienna", 7, Counted)}

\* every annotated subdivision once, Fairview as two polygons
FullFrame ==
    [n \in DOMAIN Annotated |-> Joined(Annotated[n], n, Counted)]
    \o <<Joined("Fairview", 6, Counted), Joined("Sienna", 7, Uncounted)>>

JoinedFrames ==
    {DataFrame(Range(JoinedLabels), rows) :
        rows \in SeqsUpTo(JoinedLines, MaxJoined) \cup {FullFrame}}

File(rows) == [exists |-> TRUE, rows |-> rows]
NoFile == [exists |-> FALSE, rows |-> <<>>]
Dir(name) == [exists |-> TRUE, name |-> name]
NoDir(name) == [exists |-> FALSE, name |-> name]

TotalsOf(date, cell) ==
    [Date |-> date, Active |-> cell, Deaths |-> Num(7), Recoveries |-> Num(80), Total |-> Num(186)]

TotalsFiles ==
    {NoFile, File(<<>>),
     File(<<TotalsOf(<<2021, 1, 4>>, Num(90)), TotalsOf(<<2021, 1, 5>>, Num(99))>>),
     File(<<TotalsOf(<<2021, 1, 5>>, NaN)>>)}

InitCreateMap ==
    /\ cm_pc = "call" /\ df \in JoinedFrames
    /\ filename = CasesPdf("data", "January", <<0, 5>>, <<2, 0, 2, 1>>)
    /\ total_counts_file \in TotalsFiles
    /\ save_fig \in BOOLEAN
    /\ output_dir \in {Dir("maps"), NoDir("maps")}
    /\ plot_empty \in PlotEmptyOutcomes
    /\ figure = Pending
    /\ ExIdle /\ PreIdle /\ BpIdle /\ DlIdle

CallCreateMap ==
    /\ cm_pc = "call"
    /\ figure' = CreateMap(df, filename, total_counts_file, save_fig, output_dir,
                           plot_empty)
    /\ cm_pc' = "return"
    /\ UNCHANGED <<df, filename, total_counts_file, save_fig, output_dir, plot_empty,
                   exVars, preVars, bpVars, dlVars>>

SpecCreateMap == InitCreateMap /\ [][CallCreateMap]_vars

(***************************************************************************)
(* Claims about create_map.                                                *)
(***************************************************************************)
HasRow(name) == \E k \in DOMAIN df.rows : df.rows[k][Text("Barangay")] = Text(name)

\* the first row of df that bears the name
FirstRow(name) ==
    df.rows[CHOOSE k \in DOMAIN df.rows :
               /\ df.rows[k][Text("Barangay")] = Text(name)
               /\ \A m \in 1..(k - 1) : df.rows[m][Text("Barangay")] # Text(name)]

\* Commonwealth has a row, and its first row has its four counts
CommonwealthReady ==
    /\ HasRow("Commonwealth")
    /\ \A f \in Range(Features) : FirstRow("Commonwealth")[Text(f)].kind = "num"

\* the totals file exists and its first row of the file's day has its numbers
TotalsReady ==
    /\ total_counts_file.exists
    /\ \E i \in DOMAIN total_counts_file.rows :
          /\ StrfBdY(total_counts_file.rows[i].Date) = DateParts(filename)
          /\ \A k \in 1..(i - 1) :
                StrfBdY(total_counts_file.rows[k].Date) # DateParts(filename)
          /\ \A c \in Range(TotalsColumns) : total_counts_file.rows[i][c].kind = "num"

\* C10 as stated: create_map fails whenever one of the five annotated
\* subdivisions has no row in df; it succeeds only when all five have one.
C10_FailsWhenAnyAnnotatedIsAbsent ==
    (cm_pc = "return" /\ \E n \in DOMAIN Annotated : ~HasRow(Annotated[n]))
        => figure.raised # "none"

\* the class of the failure when Commonwealth has no row: the lookup's
\* IndexError, unless df has no row at all and the plot of it raised before
NoCommonwealthError ==
    IF df.rows = <<>> /\ plot_empty # "none" THEN plot_empty ELSE "IndexError"

\* C10 amended: among the five, only Commonwealth must have a row: create_map
\* fails when Commonwealth has no row or its first row has a missing count
\* (ValueError).  With no Commonwealth row the failure is the lookup's
\* IndexError whenever df has a row; for a df of no rows it is that IndexError
\* or, where the plotting libraries reject a plot of no rows, their ValueError.
\* Fairview, Batasan Hills, Holy Spirit and Pasong Tamo are annotated with
\* sums, which are 0 when they have no row, so when the day's totals and the
\* output directory are there, the image is produced exactly when
\* Commonwealth's first row has its four counts.
C10_OnlyCommonwealthIsRequired ==
    cm_pc = "return" =>
        /\ ~CommonwealthReady => figure.raised # "none"
        /\ (TotalsReady /\ (save_fig => output_dir.exists)) =>
             /\ CommonwealthReady <=> figure.raised = "none"
             /\ ~HasRow("Commonwealth") => figure.raised = NoCommonwealthError
             /\ (~HasRow("Commonwealth") /\ df.rows # <<>>) =>
                    figure.raised = "IndexError"
             /\ figure.raised = "none" =>
                  \A n \in {1, 3, 4, 5} : ~HasRow(Annotated[n]) =>
                      figure.value.annotations[n] = <<0, 0, 0, 0>>

C10_Witness ==
    /\ cm_pc = "return" /\ figure.raised = "none" /\ save_fig
    /\ HasRow("Commonwealth") /\ HasRow("Sienna")
    /\ \A n \in {1, 3, 4, 5} : ~HasRow(Annotated[n])

(***************************************************************************)
(* Specification of batch_process.  What data_dir holds for a day is read  *)
(* when the day is reached: the loops visit no path twice (the months of   *)
(* dt differ) and write to output_dir only.                                *)
(***************************************************************************)
\* a PDF of one table: the header, the lines, the footer
Report(body) == Pdf(<<<<HeaderRow>> \o body \o <<FooterRow>>>>)

GoodReport == Report(<<Line("Commonwealth", PlainBut(2, NaN)), Line("Siena", Plain)>>)

DiskStates ==
    {NoPdf, CorruptPdf, Pdf(<<>>), GoodReport,
     Report(<<Line("Commonwealth", PlainBut(1, Text("n/a")))>>),
     Report(<<Line("Siena", Plain)>>),
     Pdf(<<<<AltHeaderRow, Line("Commonwealth", Plain), FooterRow>>>>)}

BatchShapes ==
    DataFrame(Range(ShapeLabels),
        <<Shape("Metropolitan Manila", "Quezon City", "Constitution Hills", 2),
          Shape("Metropolitan Manila", "Quezon City", "Sienna", 1),
          Shape("Metropolitan Manila", "Quezon City", "Fairview", 3),
          Shape("Metropolitan Manila", "Manila", "Nowhere", 4)>>)

\* the daily totals of the first days of January to April 2021, but for the
\* days in skip
TotalsBut(skip) ==
    LET all == Flatten([m \in 1..4 |->
                   [d \in 1..(LongRange + 1) |-> TotalsOf(<<2021, m, d>>, Num(90 + d))]])
        Kept(r) == r.Date \notin skip
    IN  File(SelectSeq(all, Kept))

BatchTotals == {TotalsBut({}), TotalsBut({<<2021, 1, 2>>}), NoFile}

DtInputs ==
    {<<>>, <<<<"April", LongRange>>>>}
    \cup {<<<<"January", n>>>> : n \in 0..MaxDays}
    \cup {<<<<"January", 1>>, <<"February", 0>>, <<"March", n>>>> : n \in 1..2}

\* what data_dir may hold at a path: anything for the early days of a month; of
\* the later days, the 5th has no file and the others hold a good report
OnDisk(file) ==
    LET d == ParseDigits(file.dd)
    IN  IF d <= MaxDays THEN DiskStates
        ELSE IF d = 5 THEN {NoPdf}
        ELSE {GoodReport}

InitBatch ==
    /\ bp_pc = "for_range" /\ dt \in DtInputs /\ range_ix = 0 /\ day = 0
    /\ found = <<>> /\ outputs = {} /\ escaped = "none"
    /\ map_df = BatchShapes
    /\ total_counts_file \in BatchTotals
    /\ output_dir \in {Dir("maps"), NoDir("maps")}
    /\ pre_pc = "idle" /\ covid_data = <<>> /\ df_out = Pending
    /\ cm_pc = "idle" /\ df = <<>> /\ filename = "" /\ save_fig = FALSE /\ figure = Pending
    /\ plot_empty \in PlotEmptyOutcomes
    /\ ExIdle /\ DlIdle

bpFixed == <<dt, exVars, preVars, cmVars, dlVars>>

\* for date_range in dt: the next pair, month = date_range[0]
CanEnterRange == bp_pc = "for_range" /\ range_ix < Len(dt)

EnterRange ==
    /\ CanEnterRange
    /\ range_ix' = range_ix + 1 /\ day' = 0 /\ bp_pc' = "for_day"
    /\ UNCHANGED <<found, outputs, escaped, bpFixed>>

\* the path of the day the inner loop visits next
NextFile == DownloadedFile("data", dt[range_ix][1], day + 1)

\* what the body of the try does with the PDF found at that path
TryBody(pdf) ==
    ProcessFile(pdf, NextFile, map_df, total_counts_file, output_dir, plot_empty)

\* for day in range(1, date_range[1] + 1): one day, the try and its handler
CanProcessDay == bp_pc = "for_day" /\ day < dt[range_ix][2]

ProcessDay ==
    /\ CanProcessDay
    /\ day' = day + 1
    /\ \E pdf \in OnDisk(NextFile) :
         /\ found' = Append(found,
                [file |-> NextFile, pdf |-> pdf, raised |-> TryBody(pdf).raised])
         /\ outputs' = IF TryBody(pdf).raised = "none"
                       THEN outputs \cup TryBody(pdf).value.saved
                       ELSE outputs
         /\ bp_pc' = IF TryBody(pdf).raised = "none" \/ Caught(TryBody(pdf).raised)
                     THEN bp_pc
                     ELSE "raised"
         /\ escaped' = IF TryBody(pdf).raised = "none" \/ Caught(TryBody(pdf).raised)
                       THEN escaped
                       ELSE TryBody(pdf).raised
    /\ UNCHANGED <<range_ix, bpFixed>>

\* the days of the pair are exhausted
CanLeaveRange == bp_pc = "for_day" /\ day >= dt[range_ix][2]

LeaveRange ==
    /\ CanLeaveRange
    /\ bp_pc' = "for_range"
    /\ UNCHANGED <<range_ix, day, found, outputs, escaped, bpFixed>>

\* the pairs are exhausted: batch_process returns
CanReturnBatch == bp_pc = "for_range" /\ range_ix >= Len(dt)

ReturnBatch ==
    /\ CanReturnBatch
    /\ bp_pc' = "done"
    /\ UNCHANGED <<range_ix, day, found, outputs, escaped, bpFixed>>

NextBatch == EnterRange \/ ProcessDay \/ LeaveRange \/ ReturnBatch

SpecBatch == InitBatch /\ [][NextBatch]_vars

(***************************************************************************)
(* Claims about batch_process.                                             *)
(***************************************************************************)
\* the paths of every day of every pair, in the order of dt and of the days
ExpectedFiles ==
    Flatten([i \in DOMAIN dt |->
        [d \in 1..dt[i][2] |-> CasesPdf("data", dt[i][1], Pad(d, 2), Pad(2021, 4))]])

PngOf(file) == [dir |-> "maps", month |-> file.month, dd |-> file.dd, yyyy |-> file.yyyy]

\* a PDF the three stages can process: readable, at least one table, every
\* table under the report's header, no non-numeric count, a line for Commonwealth
WellFormedPdf(pdf) ==
    /\ pdf.exists /\ pdf.readable /\ pdf.tables # <<>>
    /\ \A i \in DOMAIN pdf.tables :
          /\ Len(pdf.tables[i]) >= 1 /\ pdf.tables[i][1] = HeaderRow
          /\ \A j \in 2..(Len(pdf.tables[i]) - 1) : \A p \in 2..5 :
                pdf.tables[i][j][p].kind # "text"
    /\ \E i \in DOMAIN pdf.tables : \E j \in 2..(Len(pdf.tables[i]) - 1) :
          pdf.tables[i][j][1] = Text("Commonwealth")

\* the totals file has the numbers of every expected day, the directory exists
EnvironmentReady ==
    /\ output_dir.exists /\ total_counts_file.exists
    /\ \A k \in DOMAIN ExpectedFiles :
          \E i \in DOMAIN total_counts_file.rows :
             StrfBdY(total_counts_file.rows[i].Date) = DateParts(ExpectedFiles[k])

C6_DaysInOrderAndMissingSkipped ==
    /\ Len(found) <= Len(ExpectedFiles)
    /\ \A k \in DOMAIN found : found[k].file = ExpectedFiles[k]
    /\ \A k \in DOMAIN found : ~found[k].pdf.exists =>
          /\ found[k].raised = "FileNotFoundError"
          /\ PngOf(found[k].file) \notin outputs
          /\ k = Len(found) => bp_pc # "raised"
    /\ EnvironmentReady =>
          /\ \A k \in DOMAIN found :
                WellFormedPdf(found[k].pdf) => PngOf(found[k].file) \in outputs
          /\ (\A k \in DOMAIN found : ~found[k].pdf.exists \/ WellFormedPdf(found[k].pdf))
                => bp_pc # "raised"
    /\ bp_pc = "done" =>
          /\ Len(found) = Len(ExpectedFiles)
          /\ outputs = {PngOf(found[k].file) : k \in {n \in DOMAIN found : found[n].raised = "none"}}

\* what is left to do: the days not yet visited, the pairs not yet entered and
\* the loop exits not yet taken
BatchRank ==
    3 * (Len(ExpectedFiles) - Len(found)) + 2 * (Len(dt) - range_ix)
      + (IF bp_pc = "for_day" THEN 2 ELSE IF bp_pc = "for_range" THEN 1 ELSE 0)

\* until batch_process has returned or raised, one of its steps can be taken:
\* a step's guard holds, and the path it reads has a state on disk
BatchRuns ==
    /\ BatchRank >= 0
    /\ \/ bp_pc \in {"done", "raised"}
       \/ CanEnterRange \/ CanLeaveRange \/ CanReturnBatch
       \/ CanProcessDay /\ OnDisk(NextFile) # {}

\* C6: batch_process visits the days 1..day-count of every pair in order; a day
\* whose PDF is absent is skipped without raising; given the totals of every
\* day and the output directory, every other day whose PDF is a well-formed
\* report gets its image; and batch_process completes: until it has returned
\* (or a failure of another kind has escaped) a step can be taken, and every
\* step lowers the bounded count of what is left to do.
C6_BatchSkipsMissingDaysAndCompletes ==
    /\ [](C6_DaysInOrderAndMissingSkipped /\ BatchRuns)
    /\ [][BatchRank' < BatchRank]_vars

C6_Witness ==
    /\ bp_pc = "done" /\ EnvironmentReady /\ Len(found) >= 10
    /\ ~found[5].pdf.exists
    /\ \A k \in DOMAIN found : k # 5 => WellFormedPdf(found[k].pdf)
    /\ Cardinality(outputs) = Len(found) - 1

\* C8 as stated: a day is skipped silently only when its PDF does not exist.
C8_SkippedOnlyWhenPdfIsMissing ==
    \A k \in DOMAIN found :
        (found[k].raised # "none" /\ ~(k = Len(found) /\ bp_pc = "raised"))
            => ~found[k].pdf.exists

\* C8 amended: the handler catches FileNotFoundError from any of the three
\* stages: a day is skipped silently when its PDF does not exist, and also when
\* create_map finds no totals file or no output directory; an exception of any
\* other class (a corrupt PDF, a PDF without tables, a missing column, a
\* non-numeric count, a missing Commonwealth count) escapes batch_process on
\* the day it is raised, and no later day is processed.
C8_OnlyFileNotFoundIsCaught ==
    /\ \A k \in DOMAIN found :
          /\ ~found[k].pdf.exists => found[k].raised = "FileNotFoundError"
          /\ found[k].raised = "FileNotFoundError" =>
                \/ ~found[k].pdf.exists
                \/ ~total_counts_file.exists
                \/ ~output_dir.exists
          /\ (found[k].pdf = CorruptPdf \/ found[k].pdf = Pdf(<<>>)) =>
                found[k].raised \notin {"none", "FileNotFoundError"}
          /\ found[k].raised \notin {"none", "FileNotFoundError"} =>
                /\ k = Len(found)
                /\ bp_pc = "raised" /\ escaped = found[k].raised
          /\ found[k].raised = "none" <=> PngOf(found[k].file) \in outputs
    /\ bp_pc = "raised" =>
          /\ found # <<>>
          /\ found[Len(found)].raised \notin {"none", "FileNotFoundError"}
    /\ bp_pc # "raised" => escaped = "none"

C8_Witness ==
    /\ bp_pc = "raised" /\ Len(found) = 3 /\ Len(ExpectedFiles) > 3
    /\ ~total_counts_file.exists
    /\ found[1].pdf = GoodReport /\ found[1].raised = "FileNotFoundError"
    /\ ~found[2].pdf.exists /\ found[2].raised = "FileNotFoundError"
    /\ found[3].pdf = Pdf(<<>>) /\ escaped = "ValueError"
    /\ outputs = {}

(***************************************************************************)
(* Specification of download_data.  Every request is answered; the status  *)
(* of the answer is the server's choice.                                   *)
(***************************************************************************)
StatusCodes == {200, 204, 404}

Years == 2020..2021

ValidDates ==
    {date \in Years \X (1..12) \X (1..31) : date[3] <= DaysInMonth(date[1], date[2])}

\* the number of the date's day, counted from the first day of 2020
Ordinal(date) ==
    SumSeq([k \in 1..(date[1] - 2020) |-> SumSeq([m \in 1..12 |-> DaysInMonth(2019 + k, m)])])
      + SumSeq([m \in 1..(date[2] - 1) |-> DaysInMonth(date[1], m)])
      + date[3]

StartDates == {<<2020, 2, 27>>, <<2020, 12, 30>>, <<2021, 2, 27>>, <<2021, 4, 29>>}

InitDownload ==
    /\ dl_pc = "while"
    /\ start_dt \in StartDates
    /\ end_dt \in {date \in ValidDates :
                     Ordinal(date) - Ordinal(start_dt) \in (0 - 2)..(MaxSpan - 1)}
    /\ start_date = start_dt /\ end_date = end_dt
    /\ requested = <<>> /\ files = {} /\ printed = <<>>
    /\ ExIdle /\ PreIdle /\ CmIdle /\ BpIdle

dlFixed == <<start_dt, end_dt, end_date, exVars, preVars, cmVars, bpVars>>

CanFetch == dl_pc = "while" /\ DateLE(start_date, end_date)

\* one turn of the while loop: the request, the file or the message, the next date
Fetch ==
    /\ CanFetch
    /\ \E code \in StatusCodes :
         /\ requested' = Append(requested, [date |-> start_date, url |-> Url(start_date), status |-> code])
         /\ files' = IF IsResponse200(code)
                     THEN files \cup {SavedPdf("output", start_date)}
                     ELSE files
         /\ printed' = IF IsResponse200(code)
                       THEN printed
                       ELSE Append(printed, StrfBdY(start_date))
    /\ start_date' = PlusOneDay(start_date)
    /\ UNCHANGED <<dl_pc, dlFixed>>

CanReturnDownload == dl_pc = "while" /\ ~DateLE(start_date, end_date)

\* the loop condition fails: download_data returns
ReturnDownload ==
    /\ CanReturnDownload
    /\ dl_pc' = "done"
    /\ UNCHANGED <<start_date, requested, files, printed, dlFixed>>

NextDownload == Fetch \/ ReturnDownload

SpecDownload == InitDownload /\ [][NextDownload]_vars

(***************************************************************************)
(* Claims about download_data.                                             *)
(***************************************************************************)
\* the file name of a date, written out: <Month>-<DD>-<YYYY>-Cases.pdf
NameOf(date) ==
    [dir |-> "output", month |-> MonthName[date[2]],
     dd |-> <<date[3] \div 10, date[3] % 10>>,
     yyyy |-> <<date[1] \div 1000, (date[1] \div 100) % 10, (date[1] \div 10) % 10, date[1] % 10>>]

DaysInRange ==
    IF Ordinal(end_dt) >= Ordinal(start_dt) THEN Ordinal(end_dt) - Ordinal(start_dt) + 1 ELSE 0

DownloadHandlesEachDate ==
    /\ Len(requested) <= DaysInRange
    /\ \A k \in DOMAIN requested :
          /\ requested[k].date \in ValidDates
          /\ Ordinal(requested[k].date) = Ordinal(start_dt) + k - 1
          /\ requested[k].status = 200 =>
                /\ NameOf(requested[k].date) \in files
                /\ \A i \in DOMAIN printed : printed[i] # StrfBdY(requested[k].date)
          /\ requested[k].status # 200 =>
                /\ NameOf(requested[k].date) \notin files
                /\ \E i \in DOMAIN printed : printed[i] = StrfBdY(requested[k].date)
    /\ Cardinality(files) = Cardinality({k \in DOMAIN requested : requested[k].status = 200})
    /\ Len(printed) = Cardinality({k \in DOMAIN requested : requested[k].status # 200})
    /\ dl_pc = "done" => Len(requested) = DaysInRange

\* the dates left to request, and the return left to take
DownloadRank ==
    (DaysInRange - Len(requested)) + (IF dl_pc = "while" THEN 1 ELSE 0)

DownloadRuns ==
    /\ DownloadRank >= 0
    /\ dl_pc = "done" \/ CanFetch \/ CanReturnDownload

\* C7: download_data requests the dates from the start date to the end date
\* inclusive, one request per date, in calendar order; a date answered with
\* status 200 gets exactly one file, named from the date alone; a date answered
\* otherwise gets no file and one message; either way the next date follows,
\* and download_data returns after the end date: until then a step can be
\* taken, and every step lowers the bounded count of what is left to do.
C7_DownloadHandlesEachDateOnce ==
    /\ [](DownloadHandlesEachDate /\ DownloadRuns)
    /\ [][DownloadRank' < DownloadRank]_vars

C7_Witness ==
    /\ dl_pc = "done" /\ start_dt = <<2020, 2, 27>> /\ end_dt = <<2020, 3, 1>>
    /\ Len(requested) = 4
    /\ requested[1].status = 200 /\ requested[2].status = 404
    /\ requested[3].status = 204 /\ requested[4].status = 200
    /\ Cardinality(files) = 2 /\ Len(printed) = 2

====
